---- MODULE Spec2Model ----
(***************************************************************************)
(* Model of src/src/header.ts: getBlockHeader turns a block fetched from   *)
(* an Ethereum client into the input of the verify_header circuit: the     *)
(* RLP encoding of the header's fields, a partial header record and the    *)
(* chain id.                                                               *)
(*                                                                         *)
(* JavaScript values are records [t, d, v]:                                *)
(*   t = "null" | "undef"        null and undefined                        *)
(*   t = "str"                   the empty string ''                       *)
(*   t = "hex"                   the string '0x' followed by the hex       *)
(*                               digits d (a sequence of 0..15)            *)
(*   t = "int"                   the bigint v                              *)
(* Byte arrays (Uint8Array) are sequences of 0..255.                       *)
(***************************************************************************)
EXTENDS Integers, Sequences, FiniteSets, TLC

Null == [t |-> "null", d |-> <<>>, v |-> 0]
Undefined == [t |-> "undef", d |-> <<>>, v |-> 0]
EmptyStr == [t |-> "str", d |-> <<>>, v |-> 0]
Hex(digits) == [t |-> "hex", d |-> digits, v |-> 0]
BigInt(n) == [t |-> "int", d |-> <<>>, v |-> n]

\* A bigint of 2^31 or more, as its hexadecimal digits, the most significant
\* first and not 0.
Big(digits) == [t |-> "big", d |-> digits, v |-> 0]

\* JavaScript truthiness of a value used as a condition (x ? a : b).
Truthy(x) ==
  CASE x.t = "null" -> FALSE
    [] x.t = "undef" -> FALSE
    [] x.t = "str" -> FALSE
    [] x.t = "hex" -> TRUE
    [] x.t = "int" -> x.v # 0
    [] x.t = "big" -> TRUE

\* The result of an expression that may throw.
Ok(val) == [ok |-> TRUE, val |-> val, err |-> ""]
Throw(e) == [ok |-> FALSE, val |-> <<>>, err |-> e]

Zeros(n) == [i \in 1..n |-> 0]

----------------------------------------------------------------------------
(* viem's byte and hex conversions, as getBlockHeader uses them.           *)

\* hexToBytes: an odd number of digits gets a leading '0', then each pair of
\* digits is one byte. A value that is no string has no slice method.
hexToBytes(hex) ==
  IF hex.t \notin {"hex", "str"} THEN Throw("TypeError")
  ELSE LET ds == IF Len(hex.d) % 2 = 1 THEN <<0>> \o hex.d ELSE hex.d
       IN Ok([i \in 1..(Len(ds) \div 2) |-> 16 * ds[2 * i - 1] + ds[2 * i]])

\* pad(hex, {size}): left-pads the digits with '0' to size bytes, and throws
\* when the digits are more than size bytes.
pad(hex, size) ==
  IF Len(hex.d) > 2 * size THEN Throw("SizeExceedsPaddingSizeError")
  ELSE Ok(Hex(Zeros(2 * size - Len(hex.d)) \o hex.d))

\* The hex digits of n (BigInt.prototype.toString(16)), most significant first.
RECURSIVE HexDigits(_)
HexDigits(n) == IF n < 16 THEN <<n>> ELSE HexDigits(n \div 16) \o <<n % 16>>

\* numberToHex: throws for a negative value.
numberToHex(n) ==
  IF n < 0 THEN Throw("IntegerOutOfRangeError") ELSE Ok(Hex(HexDigits(n)))

\* toBytes(value): a bigint goes through numberToHex and hexToBytes; any
\* other value that is no hex string is text-encoded (undefined encodes as
\* the empty text, null as the text "null").
toBytes(x) ==
  CASE x.t = "int" ->
         LET h == numberToHex(x.v) IN IF h.ok THEN hexToBytes(h.val) ELSE h
    [] x.t = "big" -> hexToBytes(Hex(x.d))
    [] x.t = "hex" -> hexToBytes(x)
    [] x.t = "undef" -> Ok(<<>>)
    [] x.t = "str" -> Ok(<<>>)
    [] x.t = "null" -> Ok(<<110, 117, 108, 108>>)

toRlpBytesNoZeroCase(val) == toBytes(val)

\* toRlpBytes (header.ts:22-25).
toRlpBytes(val) ==
  IF val.t = "int" /\ val.v = 0 THEN Ok(<<>>) ELSE toBytes(val)

----------------------------------------------------------------------------
(* viem's toRlp: the RLP encoding of a list of byte arrays, as a hex string *)

\* The number of bytes the length n is written in (getSizeOfLength).
getSizeOfLength(n) ==
  IF n < 256 THEN 1 ELSE IF n < 65536 THEN 2 ELSE IF n < 16777216 THEN 3 ELSE 4

\* n as size big-endian bytes.
RECURSIVE BigEndian(_, _)
BigEndian(n, size) ==
  IF size = 0 THEN <<>> ELSE BigEndian(n \div 256, size - 1) \o <<n % 256>>

\* One byte array as an RLP string (getEncodableBytes).
RlpBytes(b) ==
  IF Len(b) = 1 /\ b[1] < 128 THEN b
  ELSE IF Len(b) <= 55 THEN <<128 + Len(b)>> \o b
  ELSE <<183 + getSizeOfLength(Len(b))>>
         \o BigEndian(Len(b), getSizeOfLength(Len(b))) \o b

RECURSIVE RlpBodyReversed(_, _)
RlpBodyReversed(list, n) ==
  IF n = 0 THEN <<>> ELSE RlpBytes(list[n]) \o RlpBodyReversed(list, n - 1)

RECURSIVE RlpBody(_, _)
RlpBody(list, n) ==
  IF n = 0 THEN <<>> ELSE RlpBody(list, n - 1) \o RlpBytes(list[n])

\* A list of byte arrays as an RLP list (getEncodableList).
RlpList(list) ==
  LET body == RlpBody(list, Len(list))
  IN IF Len(body) <= 55 THEN <<192 + Len(body)>> \o body
     ELSE <<247 + getSizeOfLength(Len(body))>>
            \o BigEndian(Len(body), getSizeOfLength(Len(body))) \o body

\* bytesToHex: two digits a byte.
bytesToHex(b) ==
  Hex([i \in 1..(2 * Len(b)) |->
         IF i % 2 = 1 THEN b[(i + 1) \div 2] \div 16 ELSE b[i \div 2] % 16])

\* toRlp(bytes) with its default output, 'hex'.
toRlp(list) == bytesToHex(RlpList(list))

----------------------------------------------------------------------------
(* @zkpersona/noir-helpers containers and ./helpers                        *)

\* new FixedSizeArray(length, items): exactly length items.
FixedSizeArray(length, items) ==
  IF Len(items) # length THEN Throw("WidthMismatch")
  ELSE Ok([length |-> length, items |-> items])

\* new BoundedVec(maxSize, defaultValue, items): at most maxSize items.
BoundedVec(maxSize, defaultValue, items) ==
  IF Len(items) > maxSize THEN Throw("CapacityExceeded")
  ELSE Ok([maxSize |-> maxSize, defaultValue |-> defaultValue, items |-> items])

\* The circuit input of a BoundedVec: the items, then the default value up
\* to maxSize, and the number of items.
BoundedVecToJSON(vec) ==
  [storage |-> vec.items
                 \o [i \in 1..(vec.maxSize - Len(vec.items)) |-> vec.defaultValue],
   len |-> Len(vec.items)]

\* The payload of a circuit-input buffer: its first len entries.
Unpack(buf) == SubSeq(buf.storage, 1, buf.len)

\* parseByteArray: the bytes of the encoded buffer, each a U8.
parseByteArray(val) == hexToBytes(val)

\* parseBytes32: the bytes of a hex string as a FixedSizeArray of 32 U8,
\* a shorter string left-padded with zero bytes (as the caller's '0x0').
parseBytes32(val) ==
  LET p == IF val.t \in {"hex", "str"} THEN pad(val, 32) ELSE Throw("TypeError")
      b == IF p.ok THEN hexToBytes(p.val) ELSE p
  IN IF b.ok THEN FixedSizeArray(32, b.val) ELSE b

----------------------------------------------------------------------------
(* getBlockHeader (header.ts:27-85)                                        *)

VARIABLES
  pc,          \* where the call is: idle, awaiting, fetched, returned, rejected
  client,      \* publicClient.chain?.id
  chainId,     \* the local chainId (line 31)
  block,       \* the block getBlock resolved with (line 32)
  headerData,  \* the filtered field list (lines 34-62)
  headerRlp,   \* toRlp(headerData) (line 64)
  result,      \* the value the call returned (lines 80-84)
  error,       \* the error the call rejected with
  val,         \* the argument of a toRlpBytes call
  out,         \* what that call returned
  fetches,     \* the getBlock calls the call has made on the client
  calls        \* the calls in flight at once, each with its own locals

vars ==
  <<pc, client, chainId, block, headerData, headerRlp, result, error, val, out,
    fetches, calls>>

\* An entry of the array literal of lines 34-61: a byte array, or undefined.
Item(r) == [ok |-> r.ok, def |-> TRUE, val |-> r.val, err |-> r.err]
Absent == [ok |-> TRUE, def |-> FALSE, val |-> <<>>, err |-> ""]

LogsBloomFieldDropped(b) ==
  IF Truthy(b.logsBloom) THEN Item(hexToBytes(b.logsBloom)) ELSE Absent

\* Line 41.
LogsBloomField(b) ==
  IF Truthy(b.logsBloom) THEN Item(hexToBytes(b.logsBloom)) ELSE Item(Ok(Zeros(256)))

NumberOrOne(b) == IF b.number.t \in {"null", "undef"} THEN BigInt(1) ELSE b.number

\* Line 43: block.number ?? 0n.
NumberOrZero(b) == IF b.number.t \in {"null", "undef"} THEN BigInt(0) ELSE b.number

NonceFieldEmptyDefault(b) ==
  IF Truthy(b.nonce)
  THEN LET p == pad(b.nonce, 8) IN Item(IF p.ok THEN hexToBytes(p.val) ELSE p)
  ELSE Item(hexToBytes(Hex(<<>>)))

NonceFieldUnpadded(b) ==
  IF Truthy(b.nonce) THEN Item(hexToBytes(b.nonce))
  ELSE Item(hexToBytes(Hex(Zeros(16))))

\* Lines 49-51.
NonceField(b) ==
  IF Truthy(b.nonce)
  THEN LET p == pad(b.nonce, 8) IN Item(IF p.ok THEN hexToBytes(p.val) ELSE p)
  ELSE Item(hexToBytes(Hex(Zeros(16))))

\* Lines 52, 54, 55: an integer tail field.
TailInteger(x) == IF x.t # "null" THEN Item(toRlpBytes(x)) ELSE Absent

TailHashRequired(x) == Item(hexToBytes(x))

\* Lines 53, 56-61: a hash tail field.
TailHash(x) == IF Truthy(x) THEN Item(hexToBytes(x)) ELSE Absent

ExtraDataFieldPadded(b) ==
  LET p == IF b.extraData.t \in {"hex", "str"} THEN pad(b.extraData, 32) ELSE Throw("TypeError")
  IN Item(IF p.ok THEN hexToBytes(p.val) ELSE p)

\* Line 47.
ExtraDataField(b) == Item(hexToBytes(b.extraData))

\* Lines 35-51: the fifteen fields every header has.
HeadFields(b) ==
  << Item(hexToBytes(b.parentHash)),
     Item(hexToBytes(b.sha3Uncles)),
     Item(hexToBytes(b.miner)),
     Item(hexToBytes(b.stateRoot)),
     Item(hexToBytes(b.transactionsRoot)),
     Item(hexToBytes(b.receiptsRoot)),
     LogsBloomField(b),
     Item(toRlpBytes(b.difficulty)),
     Item(toRlpBytes(NumberOrZero(b))),
     Item(toRlpBytes(b.gasLimit)),
     Item(toRlpBytes(b.gasUsed)),
     Item(toRlpBytes(b.timestamp)),
     ExtraDataField(b),
     Item(hexToBytes(b.mixHash)),
     NonceField(b) >>

TailFieldsSwapped(b) ==
  << TailHash(b.withdrawalsRoot),
     TailInteger(b.baseFeePerGas),
     TailInteger(b.blobGasUsed),
     TailInteger(b.excessBlobGas),
     TailHash(b.parentBeaconBlockRoot),
     TailHash(b.requestsHash) >>

\* Lines 52-61: the fields of the upgrades.
TailFields(b) ==
  << TailInteger(b.baseFeePerGas),
     TailHash(b.withdrawalsRoot),
     TailInteger(b.blobGasUsed),
     TailInteger(b.excessBlobGas),
     TailHash(b.parentBeaconBlockRoot),
     TailHash(b.requestsHash) >>

\* Lines 34-61: the array literal, before the filter.
HeaderFields(b) == HeadFields(b) \o TailFields(b)

FilterNonEmpty(fields) ==
  SelectSeq([i \in 1..Len(fields) |-> i],
            LAMBDA i : fields[i].def /\ (fields[i].ok => fields[i].val # <<>>))

\* Line 62: .filter((x) => x !== undefined), as the kept positions.
FilterDefined(fields) ==
  SelectSeq([i \in 1..Len(fields) |-> i], LAMBDA i : fields[i].def)

\* The first entry whose expression throws: entries are evaluated in order.
FirstThrow(fields) ==
  fields[CHOOSE i \in 1..Len(fields) :
           /\ ~fields[i].ok
           /\ \A j \in 1..(i - 1) : fields[j].ok]

WithdrawalsRootOptionOfStateRoot(b) ==
  IF Truthy(b.withdrawalsRoot)
  THEN LET w == parseBytes32(b.stateRoot)
       IN IF w.ok THEN Ok([_is_some |-> TRUE, _value |-> w.val]) ELSE w
  ELSE LET e == FixedSizeArray(0, <<>>)
       IN IF e.ok THEN Ok([_is_some |-> FALSE, _value |-> e.val]) ELSE e

\* Lines 72-77.
WithdrawalsRootOption(b) ==
  IF Truthy(b.withdrawalsRoot)
  THEN LET w == parseBytes32(b.withdrawalsRoot)
       IN IF w.ok THEN Ok([_is_some |-> TRUE, _value |-> w.val]) ELSE w
  ELSE LET e == FixedSizeArray(0, <<>>)
       IN IF e.ok THEN Ok([_is_some |-> FALSE, _value |-> e.val]) ELSE e

\* new U64(value): an unsigned integer below 2^64, which has at most 16
\* hexadecimal digits.
U64(x) ==
  IF x.t = "big"
  THEN IF Len(x.d) > 16 THEN Throw("IntegerOutOfRange") ELSE Ok(x)
  ELSE IF x.v < 0 THEN Throw("IntegerOutOfRange") ELSE Ok(x.v)

PartialHeaderLenient(b) ==
  LET number == U64(NumberOrZero(b))
      hash == parseBytes32(IF b.hash.t \in {"null", "undef"} THEN Hex(<<0>>) ELSE b.hash)
      state_root == parseBytes32(b.stateRoot)
      transactions_root == parseBytes32(b.transactionsRoot)
      receipts_root == parseBytes32(b.receiptsRoot)
      withdrawals_root == WithdrawalsRootOption(b)
      parts == <<number, hash, state_root, transactions_root, receipts_root,
                 withdrawals_root>>
  IN IF \E i \in 1..6 : ~parts[i].ok THEN Ok([number |-> NumberOrZero(b).v])
     ELSE Ok([number |-> number.val, hash |-> hash.val,
              state_root |-> state_root.val,
              transactions_root |-> transactions_root.val,
              receipts_root |-> receipts_root.val,
              withdrawals_root |-> withdrawals_root.val])

PartialHeaderNoHashDefault(b) ==
  LET number == U64(NumberOrZero(b))
      hash == parseBytes32(b.hash)
      state_root == parseBytes32(b.stateRoot)
      transactions_root == parseBytes32(b.transactionsRoot)
      receipts_root == parseBytes32(b.receiptsRoot)
      withdrawals_root == WithdrawalsRootOption(b)
      parts == <<number, hash, state_root, transactions_root, receipts_root,
                 withdrawals_root>>
  IN IF \E i \in 1..6 : ~parts[i].ok THEN FirstThrow(parts)
     ELSE Ok([number |-> number.val, hash |-> hash.val,
              state_root |-> state_root.val,
              transactions_root |-> transactions_root.val,
              receipts_root |-> receipts_root.val,
              withdrawals_root |-> withdrawals_root.val])

\* Lines 66-78: the partial header.
PartialHeader(b) ==
  LET number == U64(NumberOrZero(b))
      hash == parseBytes32(IF b.hash.t \in {"null", "undef"} THEN Hex(<<0>>) ELSE b.hash)
      state_root == parseBytes32(b.stateRoot)
      transactions_root == parseBytes32(b.transactionsRoot)
      receipts_root == parseBytes32(b.receiptsRoot)
      withdrawals_root == WithdrawalsRootOption(b)
      parts == <<number, hash, state_root, transactions_root, receipts_root,
                 withdrawals_root>>
  IN IF \E i \in 1..6 : ~parts[i].ok THEN FirstThrow(parts)
     ELSE Ok([number |-> number.val, hash |-> hash.val,
              state_root |-> state_root.val,
              transactions_root |-> transactions_root.val,
              receipts_root |-> receipts_root.val,
              withdrawals_root |-> withdrawals_root.val])

BlockHeaderRlpTruncating(rlp) ==
  LET items == parseByteArray(rlp)
  IN IF items.ok
     THEN BoundedVec(742, 0, SubSeq(items.val, 1,
                                    IF Len(items.val) > 742 THEN 742 ELSE Len(items.val)))
     ELSE items

BlockHeaderRlpOneShort(rlp) ==
  LET items == parseByteArray(rlp)
  IN IF items.ok THEN BoundedVec(741, 0, items.val) ELSE items

BlockHeaderRlpCapacity693(rlp) ==
  LET items == parseByteArray(rlp)
  IN IF items.ok THEN BoundedVec(693, 0, items.val) ELSE items

BlockHeaderRlpPadOnes(rlp) ==
  LET items == parseByteArray(rlp)
  IN IF items.ok THEN BoundedVec(742, 1, items.val) ELSE items

\* Line 83.
BlockHeaderRlp(rlp) ==
  LET items == parseByteArray(rlp)
  IN IF items.ok THEN BoundedVec(742, 0, items.val) ELSE items

----------------------------------------------------------------------------
(* The blocks a client may report                                          *)

MaxExtra == 2
MaxVal == 300

\* A hex string of n bytes whose digits vary with the position.
Pat(n, k, off) == Hex([i \in 1..(2 * n) |-> (k * i + off) % 16])

\* A block after the Cancun upgrade, every hash field distinct.
BaseBlock ==
  [ parentHash |-> Pat(32, 1, 0),
    sha3Uncles |-> Pat(32, 3, 1),
    miner |-> Pat(20, 5, 2),
    stateRoot |-> Pat(32, 7, 3),
    transactionsRoot |-> Pat(32, 9, 4),
    receiptsRoot |-> Pat(32, 11, 5),
    logsBloom |-> Pat(256, 13, 6),
    difficulty |-> BigInt(0),
    number |-> BigInt(20000000),
    gasLimit |-> BigInt(30000000),
    gasUsed |-> BigInt(12345678),
    timestamp |-> BigInt(1700000000),
    extraData |-> Pat(5, 15, 7),
    mixHash |-> Pat(32, 1, 8),
    nonce |-> Hex(Zeros(16)),
    baseFeePerGas |-> BigInt(7),
    withdrawalsRoot |-> Pat(32, 3, 10),
    blobGasUsed |-> BigInt(131072),
    excessBlobGas |-> BigInt(0),
    parentBeaconBlockRoot |-> Pat(32, 5, 11),
    requestsHash |-> Null,
    hash |-> Pat(32, 7, 12) ]

\* The same block before the London upgrade, as viem's formatBlock reports
\* it: no base fee is null, the other missing tail fields are undefined.
PreLondonBlock ==
  [BaseBlock EXCEPT !.baseFeePerGas = Null, !.withdrawalsRoot = Undefined,
                    !.blobGasUsed = Undefined, !.excessBlobGas = Undefined,
                    !.parentBeaconBlockRoot = Undefined,
                    !.requestsHash = Undefined]

\* The same block with every tail field null.
NoTailBlock ==
  [BaseBlock EXCEPT !.baseFeePerGas = Null, !.withdrawalsRoot = Null,
                    !.blobGasUsed = Null, !.excessBlobGas = Null,
                    !.parentBeaconBlockRoot = Null, !.requestsHash = Null]

\* Every combination of present and absent tail fields.
TailBlocks ==
  { [BaseBlock EXCEPT !.baseFeePerGas = a, !.withdrawalsRoot = b,
                      !.blobGasUsed = c, !.excessBlobGas = d,
                      !.parentBeaconBlockRoot = e, !.requestsHash = f] :
      a \in {Null, Undefined, BigInt(0), BigInt(7)},
      b \in {Null, Undefined, Pat(32, 3, 10)},
      c \in {Null, Undefined, BigInt(0), BigInt(131072)},
      d \in {Null, Undefined, BigInt(0)},
      e \in {Null, Pat(32, 5, 11)},
      f \in {Undefined, Pat(32, 9, 13)} }

Integers32 == {BigInt(0), BigInt(1), BigInt(127), BigInt(128), BigInt(256)}

\* The values one head field takes while the others keep the base value.
HeadVariations ==
  ({"parentHash", "sha3Uncles", "miner", "stateRoot", "transactionsRoot",
    "receiptsRoot", "mixHash"}
     \X {Undefined, Null, Pat(31, 1, 1), Pat(33, 1, 1)})
  \cup ({"logsBloom"}
          \X {Null, Undefined, EmptyStr, Hex(<<>>), Pat(255, 1, 1), Hex(Zeros(512))})
  \cup ({"difficulty", "number", "gasLimit", "gasUsed", "timestamp"} \X Integers32)
  \cup ({"number", "hash"} \X {Null})
  \cup ({"extraData", "hash"} \X {Undefined})
  \cup ({"withdrawalsRoot"} \X {Pat(31, 3, 10), Pat(33, 3, 10)})
  \cup ({"extraData"}
          \X ({Pat(n, 15, 7) : n \in 0..MaxExtra}
                \cup {Hex(<<7, 15>>), Hex(<<8, 0>>), Pat(32, 15, 7), Pat(158, 15, 7),
                       Pat(159, 15, 7), Pat(300, 15, 7)}))
  \cup ({"nonce"}
          \X {Null, Undefined, EmptyStr, Hex(<<1>>), Pat(8, 3, 1), Pat(9, 3, 1)})

HeadBlocks ==
  { [t EXCEPT ![fv[1]] = fv[2]] :
      fv \in HeadVariations, t \in {BaseBlock, PreLondonBlock, NoTailBlock} }

\* A block with two faults: too much extra data and a state root too long.
TwoFaultsBlock ==
  [BaseBlock EXCEPT !.extraData = Pat(300, 15, 7), !.stateRoot = Pat(33, 7, 3)]

Blocks == TailBlocks \cup HeadBlocks \cup {TwoFaultsBlock}

\* The chain ids a client may report; undefined when it has no chain.
ClientChains == {Undefined, BigInt(1), BigInt(11155111)}

\* The arguments toRlpBytes is applied to.
RlpInputs ==
  {BigInt(n) : n \in 0..MaxVal}
    \cup {BigInt(65535), BigInt(65536), BigInt(16777215), BigInt(16777216),
          BigInt(2147483647)}

----------------------------------------------------------------------------
(* The call as a state machine                                             *)

NoBlock == [none |-> TRUE]
NoResult == [none |-> TRUE]

Init ==
  /\ pc = "idle"
  /\ client \in ClientChains
  /\ chainId = 0
  /\ block = NoBlock
  /\ headerData = <<>>
  /\ headerRlp = Hex(<<>>)
  /\ result = NoResult
  /\ error = ""
  /\ val = BigInt(0)
  /\ out = Ok(<<>>)
  /\ fetches = 0
  /\ calls = <<>>

GetBlockCallsTwice(n) == n + 2

\* Line 32: the one publicClient.getBlock(opts) of a call.
GetBlockCalls(n) == n + 1

ChainIdNoDefault(id) == id.v

\* Line 31: publicClient.chain?.id ?? 1.
ChainIdOf(id) == IF id.t \in {"null", "undef"} THEN 1 ELSE id.v

\* Lines 31-32: the chain id is read and getBlock is called.
Call ==
  /\ pc = "idle"
  /\ chainId' = ChainIdOf(client)
  /\ fetches' = GetBlockCalls(fetches)
  /\ pc' = "awaiting"
  /\ UNCHANGED <<client, block, headerData, headerRlp, result, error, val, out, calls>>

\* Line 32: getBlock resolves with a block.
GetBlockResolves ==
  /\ pc = "awaiting"
  /\ \E b \in Blocks : block' = b
  /\ pc' = "fetched"
  /\ UNCHANGED <<client, chainId, headerData, headerRlp, result, error, val, out, fetches, calls>>

\* Line 32: getBlock rejects, and so does the call.
GetBlockRejects ==
  /\ pc = "awaiting"
  /\ pc' = "rejected"
  /\ error' = "FetchError"
  /\ UNCHANGED <<client, chainId, block, headerData, headerRlp, result, val, out, fetches, calls>>

\* Lines 34-84 for the chain id cid, the array literal fields of lines
\* 34-61 and the block b: how the call ends and what its locals hold.
Outcome(cid, fields, b) ==
  LET kept == FilterDefined(fields)
      data == [k \in 1..Len(kept) |-> fields[kept[k]].val]
      rlp == toRlp(data)
      header == PartialHeader(b)
      vec == BlockHeaderRlp(rlp)
  IN IF \E i \in 1..Len(fields) : ~fields[i].ok
     THEN [pc |-> "rejected", headerData |-> <<>>, headerRlp |-> Hex(<<>>),
           result |-> NoResult, error |-> FirstThrow(fields).err]
     ELSE IF ~header.ok
     THEN [pc |-> "rejected", headerData |-> data, headerRlp |-> rlp,
           result |-> NoResult, error |-> header.err]
     ELSE IF ~vec.ok
     THEN [pc |-> "rejected", headerData |-> data, headerRlp |-> rlp,
           result |-> NoResult, error |-> vec.err]
     ELSE [pc |-> "returned", headerData |-> data, headerRlp |-> rlp,
           result |-> [chain_id |-> cid,
                       block_header_partial |-> header.val,
                       block_header_rlp |-> vec.val],
           error |-> ""]

\* Lines 34-84: the rest of the call runs without a break.
Encode ==
  /\ pc = "fetched"
  /\ LET o == Outcome(chainId, HeaderFields(block), block)
     IN /\ pc' = o.pc
        /\ headerData' = o.headerData
        /\ headerRlp' = o.headerRlp
        /\ result' = o.result
        /\ error' = o.error
  /\ UNCHANGED <<client, chainId, block, val, out, fetches, calls>>

\* The caller makes its next call, to a client of its choice.
NextCall ==
  /\ pc \in {"returned", "rejected"}
  /\ pc' = "idle"
  /\ client' \in ClientChains
  /\ chainId' = 0
  /\ block' = NoBlock
  /\ headerData' = <<>>
  /\ headerRlp' = Hex(<<>>)
  /\ result' = NoResult
  /\ error' = ""
  /\ fetches' = 0
  /\ UNCHANGED <<val, out, calls>>

Next == Call \/ GetBlockResolves \/ GetBlockRejects \/ Encode \/ NextCall

Spec == Init /\ [][Next]_vars

----------------------------------------------------------------------------
(* The call for the widest well-formed headers                             *)

\* 2^64 - 1 and 2^32.
MaxU64 == Big([i \in 1..16 |-> 15])
TwoTo32 == Big(<<1>> \o Zeros(8))

\* A well-formed block whose integer fields are all x, with 32 bytes of
\* extra data, a full nonce and the tail fields S.
WideBlock(x, S) ==
  [BaseBlock EXCEPT
     !.difficulty = x, !.number = x, !.gasLimit = x, !.gasUsed = x, !.timestamp = x,
     !.extraData = Pat(32, 15, 7),
     !.nonce = Pat(8, 3, 1),
     !.baseFeePerGas = IF 1 \in S THEN x ELSE Null,
     !.withdrawalsRoot = IF 2 \in S THEN Pat(32, 3, 10) ELSE Undefined,
     !.blobGasUsed = IF 3 \in S THEN x ELSE Null,
     !.excessBlobGas = IF 4 \in S THEN x ELSE Null,
     !.parentBeaconBlockRoot = IF 5 \in S THEN Pat(32, 5, 11) ELSE Undefined,
     !.requestsHash = IF 6 \in S THEN Pat(32, 9, 13) ELSE Undefined]

WideBlocks ==
  {WideBlock(x, S) : x \in {MaxU64, TwoTo32, BigInt(2147483647)}, S \in SUBSET (1..6)}

\* Line 32: getBlock resolves with one of the widest blocks.
GetWideBlockResolves ==
  /\ pc = "awaiting"
  /\ \E b \in WideBlocks : block' = b
  /\ pc' = "fetched"
  /\ UNCHANGED <<client, chainId, headerData, headerRlp, result, error, val, out, fetches, calls>>

NextWide == Call \/ GetWideBlockResolves \/ GetBlockRejects \/ Encode \/ NextCall

SpecWide == Init /\ [][NextWide]_vars

----------------------------------------------------------------------------
(* toRlpBytes on its own                                                   *)

InitRlp ==
  /\ pc = "idle"
  /\ client = Undefined
  /\ chainId = 0
  /\ block = NoBlock
  /\ headerData = <<>>
  /\ headerRlp = Hex(<<>>)
  /\ result = NoResult
  /\ error = ""
  /\ val \in RlpInputs
  /\ out = Throw("not called")
  /\ fetches = 0
  /\ calls = <<>>

\* Lines 22-25.
CallToRlpBytes ==
  /\ out = Throw("not called")
  /\ out' = toRlpBytes(val)
  /\ UNCHANGED <<pc, client, chainId, block, headerData, headerRlp, result, error, val, fetches, calls>>

NextRlp == CallToRlpBytes

SpecRlp == InitRlp /\ [][NextRlp]_vars

----------------------------------------------------------------------------
(* U128 and toU128 (header.ts:93-106)                                      *)

\* A bigint of any size: its sign and its decimal digits as a literal has
\* them, the most significant first and not 0 unless the value is 0.
Dec(neg, digits) == [neg |-> neg, dec |-> digits]

\* a < b for decimal digits of values that are not negative.
RECURSIVE DigitsLess(_, _)
DigitsLess(a, b) ==
  IF Len(a) # Len(b) THEN Len(a) < Len(b)
  ELSE IF a = <<>> THEN FALSE
  ELSE IF Head(a) # Head(b) THEN Head(a) < Head(b)
  ELSE DigitsLess(Tail(a), Tail(b))

\* a < b on bigints.
BigLess(a, b) ==
  IF a.neg /\ ~b.neg THEN TRUE
  ELSE IF ~a.neg /\ b.neg THEN FALSE
  ELSE IF a.neg THEN DigitsLess(b.dec, a.dec)
  ELSE DigitsLess(a.dec, b.dec)

MAX_VALUE_TwoTo128 ==
  Dec(FALSE, <<3, 4, 0, 2, 8, 2, 3, 6, 6, 9, 2, 0, 9, 3, 8, 4, 6, 3, 4, 6,
               3, 3, 7, 4, 6, 0, 7, 4, 3, 1, 7, 6, 8, 2, 1, 1, 4, 5, 6>>)

\* Line 94: static MAX_VALUE = 340282366920938463463374607431768211455n.
MAX_VALUE ==
  Dec(FALSE, <<3, 4, 0, 2, 8, 2, 3, 6, 6, 9, 2, 0, 9, 3, 8, 4, 6, 3, 4, 6,
               3, 3, 7, 4, 6, 0, 7, 4, 3, 1, 7, 6, 8, 2, 1, 1, 4, 5, 5>>)

\* Line 95: static MIN_VALUE = 0n.
MIN_VALUE == Dec(FALSE, <<0>>)

\* new AbstractInteger subclass (value): the value, if it is within the
\* static bounds of the class.
AbstractInteger(min, max, value) ==
  IF BigLess(value, min) \/ BigLess(max, value) THEN Throw("IntegerOutOfRange")
  ELSE Ok([value |-> value])

\* Lines 93-96: class U128 extends AbstractInteger.
U128(value) == AbstractInteger(MIN_VALUE, MAX_VALUE, value)

\* Lines 104-106.
toU128(value) == U128(value)

MaxDigits == 41

\* The arguments toU128 is applied to: 0, the values 10^n - 1 and 10^n of up
\* to MaxDigits digits, their negatives, the values that share the leading
\* digits of MAX_VALUE, and those that differ from it in the last digit.
U128Inputs ==
  {Dec(FALSE, <<0>>)}
    \cup {Dec(neg, [i \in 1..n |-> 9]) : neg \in BOOLEAN, n \in 1..MaxDigits}
    \cup {Dec(neg, <<1>> \o Zeros(n - 1)) : neg \in BOOLEAN, n \in 1..MaxDigits}
    \cup {Dec(FALSE, SubSeq(MAX_VALUE.dec, 1, n)) : n \in 1..Len(MAX_VALUE.dec)}
    \cup {Dec(FALSE, SubSeq(MAX_VALUE.dec, 1, Len(MAX_VALUE.dec) - 1) \o <<d>>) :
            d \in 0..9}

InitU128 ==
  /\ pc = "idle"
  /\ client = Undefined
  /\ chainId = 0
  /\ block = NoBlock
  /\ headerData = <<>>
  /\ headerRlp = Hex(<<>>)
  /\ result = NoResult
  /\ error = ""
  /\ val \in U128Inputs
  /\ out = Throw("not called")
  /\ fetches = 0
  /\ calls = <<>>

\* Lines 104-106.
CallToU128 ==
  /\ out = Throw("not called")
  /\ out' = toU128(val)
  /\ UNCHANGED <<pc, client, chainId, block, headerData, headerRlp, result, error, val, fetches, calls>>

NextU128 == CallToU128

SpecU128 == InitU128 /\ [][NextU128]_vars

----------------------------------------------------------------------------
(* Several calls of getBlockHeader in flight at once.  Each call is one    *)
(* activation of the async function: its locals are its own, and the await *)
(* of line 32 is the only point where another call can run.                *)

NCalls == 2

Slots == 1..NCalls

\* The blocks the client reports to concurrent calls: two that encode and
\* one whose 159 bytes of extra data make headerRlp one byte too long.
ConcBlocks ==
  {BaseBlock,
   [PreLondonBlock EXCEPT !.stateRoot = Pat(32, 3, 2)],
   [BaseBlock EXCEPT !.extraData = Pat(159, 15, 7)]}

\* Line 28: the clients concurrent calls are made with, one without a chain.
ConcClients == {Undefined, BigInt(11155111)}

\* Line 27: a frame of getBlockHeader before its first statement.  The
\* field overtook is history: whether another call was still awaiting its
\* fetch when this call ended.
IdleCall ==
  [pc |-> "idle", client |-> Undefined, chainId |-> 0, block |-> NoBlock,
   headerRlp |-> Hex(<<>>), result |-> NoResult, error |-> "", overtook |-> FALSE]

BlockOfShared(cs, c) ==
  cs[CHOOSE d \in DOMAIN cs :
       /\ cs[d].pc = "fetched"
       /\ \A e \in DOMAIN cs : cs[e].pc = "fetched" => e <= d].block

\* Line 32: const block, a local of the call.
BlockOf(cs, c) == cs[c].block

FieldsAccumulated(cs, c) ==
  IF \E d \in DOMAIN cs : d # c /\ cs[d].pc = "returned"
  THEN LET d == CHOOSE d \in DOMAIN cs : d # c /\ cs[d].pc = "returned"
       IN HeaderFields(cs[d].block) \o HeaderFields(BlockOf(cs, c))
  ELSE HeaderFields(BlockOf(cs, c))

\* Line 34: const headerData = [...], a fresh array in every call.
FieldsOf(cs, c) == HeaderFields(BlockOf(cs, c))

InitConc ==
  /\ pc = "idle"
  /\ client = Undefined
  /\ chainId = 0
  /\ block = NoBlock
  /\ headerData = <<>>
  /\ headerRlp = Hex(<<>>)
  /\ result = NoResult
  /\ error = ""
  /\ val = BigInt(0)
  /\ out = Ok(<<>>)
  /\ fetches = 0
  /\ calls = [c \in Slots |-> IdleCall]

\* Lines 27-32 of call c, up to the await.
ConcCall(c) ==
  /\ calls[c].pc = "idle"
  /\ \E cl \in ConcClients :
       calls' = [calls EXCEPT ![c].pc = "awaiting", ![c].client = cl,
                              ![c].chainId = ChainIdOf(cl)]
  /\ UNCHANGED <<pc, client, chainId, block, headerData, headerRlp, result, error,
                 val, out, fetches>>

\* Line 32: the fetch of call c resolves, whatever the other calls are doing.
ConcResolves(c) ==
  /\ calls[c].pc = "awaiting"
  /\ \E b \in ConcBlocks :
       calls' = [calls EXCEPT ![c].pc = "fetched", ![c].block = b]
  /\ UNCHANGED <<pc, client, chainId, block, headerData, headerRlp, result, error,
                 val, out, fetches>>

\* Line 32: the fetch of call c rejects.
ConcRejects(c) ==
  /\ calls[c].pc = "awaiting"
  /\ calls' = [calls EXCEPT ![c].pc = "rejected", ![c].error = "FetchError"]
  /\ UNCHANGED <<pc, client, chainId, block, headerData, headerRlp, result, error,
                 val, out, fetches>>

\* Lines 34-84 of call c: synchronous, so one step.
ConcEncode(c) ==
  /\ calls[c].pc = "fetched"
  /\ LET o == Outcome(calls[c].chainId, FieldsOf(calls, c), BlockOf(calls, c))
     IN calls' = [calls EXCEPT ![c].pc = o.pc, ![c].headerRlp = o.headerRlp,
                               ![c].result = o.result, ![c].error = o.error,
                               ![c].overtook =
                                 \E d \in Slots \ {c} : calls[d].pc = "awaiting"]
  /\ UNCHANGED <<pc, client, chainId, block, headerData, headerRlp, result, error,
                 val, out, fetches>>

\* The caller starts another call where call c has ended.
ConcNextCall(c) ==
  /\ calls[c].pc \in {"returned", "rejected"}
  /\ calls' = [calls EXCEPT ![c] = IdleCall]
  /\ UNCHANGED <<pc, client, chainId, block, headerData, headerRlp, result, error,
                 val, out, fetches>>

NextConc ==
  \/ \E c \in Slots : ConcCall(c)
  \/ \E c \in Slots : ConcResolves(c)
  \/ \E c \in Slots : ConcRejects(c)
  \/ \E c \in Slots : ConcEncode(c)
  \/ \E c \in Slots : ConcNextCall(c)

SpecConc == InitConc /\ [][NextConc]_vars

----------------------------------------------------------------------------
(* What the properties are stated with                                     *)

\* The shortest big-endian bytes of n; none for 0.
RECURSIVE MinimalBigEndian(_)
MinimalBigEndian(n) ==
  IF n = 0 THEN <<>> ELSE MinimalBigEndian(n \div 256) \o <<n % 256>>

\* The number a byte string is the big-endian form of.
RECURSIVE BigEndianValue(_)
BigEndianValue(bytes) ==
  IF bytes = <<>> THEN 0
  ELSE 256 * BigEndianValue(SubSeq(bytes, 1, Len(bytes) - 1)) + bytes[Len(bytes)]

\* The bytes a hex string stands for.
BytesOf(h) ==
  LET ds == IF Len(h.d) % 2 = 1 THEN <<0>> \o h.d ELSE h.d
  IN [i \in 1..(Len(ds) \div 2) |-> 16 * ds[2 * i - 1] + ds[2 * i]]

\* The elements of a set of numbers in increasing order.
RECURSIVE Ascending(_)
Ascending(S) ==
  IF S = {} THEN <<>>
  ELSE LET m == CHOOSE x \in S : \A y \in S : x <= y
       IN <<m>> \o Ascending(S \ {m})

\* The tail fields of a block in the canonical order, and their encodings.
TailOf(b) ==
  << b.baseFeePerGas, b.withdrawalsRoot, b.blobGasUsed, b.excessBlobGas,
     b.parentBeaconBlockRoot, b.requestsHash >>

TailEncoding(x) ==
  CASE x.t = "int" -> MinimalBigEndian(x.v)
    [] x.t = "hex" -> BytesOf(x)
    [] OTHER -> <<>>

\* A tail field the client reports as absent.
IsAbsent(x) == x.t \in {"null", "undef"}

\* The encoded list holds exactly the tail fields S, in the canonical order.
TailIs(b, data, S) ==
  /\ Len(data) = 15 + Cardinality(S)
  /\ \A k \in 1..Cardinality(S) :
       data[15 + k] = TailEncoding(TailOf(b)[Ascending(S)[k]])

----------------------------------------------------------------------------
(* Properties                                                              *)

\* C1: a successful call encodes the fields in the canonical order: the
\* fifteen head fields at positions 1 to 15, then the tail fields that are
\* kept, in the order base fee, withdrawals root, blob gas used, excess blob
\* gas, parent beacon block root, requests hash. Every tail field with a
\* value is kept and no null one is.
C1_CanonicalOrder ==
  pc = "returned" =>
    /\ Len(headerData) >= 15
    /\ headerData[1] = BytesOf(block.parentHash)
    /\ headerData[2] = BytesOf(block.sha3Uncles)
    /\ headerData[3] = BytesOf(block.miner)
    /\ headerData[4] = BytesOf(block.stateRoot)
    /\ headerData[5] = BytesOf(block.transactionsRoot)
    /\ headerData[6] = BytesOf(block.receiptsRoot)
    /\ headerData[7] = IF block.logsBloom.t = "hex" THEN BytesOf(block.logsBloom)
                       ELSE Zeros(256)
    /\ headerData[8] = MinimalBigEndian(block.difficulty.v)
    /\ headerData[9] = MinimalBigEndian(block.number.v)
    /\ headerData[10] = MinimalBigEndian(block.gasLimit.v)
    /\ headerData[11] = MinimalBigEndian(block.gasUsed.v)
    /\ headerData[12] = MinimalBigEndian(block.timestamp.v)
    /\ headerData[13] = BytesOf(block.extraData)
    /\ headerData[14] = BytesOf(block.mixHash)
    /\ Len(headerData[15]) = 8
    /\ LET n == Len(BytesOf(block.nonce))
       IN SubSeq(headerData[15], 9 - n, 8) = BytesOf(block.nonce)
    /\ \E S \in SUBSET (1..6) :
         /\ \A i \in 1..6 : TailOf(block)[i].t \in {"int", "hex"} => i \in S
         /\ \A i \in 1..6 : TailOf(block)[i].t = "null" => i \notin S
         /\ TailIs(block, headerData, S)

\* C1 witness: a call returned a list that lacks the withdrawals root and
\* holds the base fee before it and the parent beacon block root after it.
C1_Witness ==
  /\ pc = "returned"
  /\ block.baseFeePerGas = BigInt(7)
  /\ block.withdrawalsRoot = Null
  /\ block.blobGasUsed = Null
  /\ block.excessBlobGas = Null
  /\ block.requestsHash = Undefined
  /\ Len(headerData) = 17
  /\ headerData[16] = <<7>>
  /\ headerData[17] = BytesOf(block.parentBeaconBlockRoot)

\* C2: toRlpBytes(0) is the empty byte string, and toRlpBytes(v) for v > 0
\* is the byte string without a leading zero byte whose big-endian value is
\* v; 1 gives 01 and 256 gives 01 00.
C2_MinimalBigEndian ==
  out # Throw("not called") =>
    /\ out.ok
    /\ val.v = 0 => out.val = <<>>
    /\ val.v > 0 => /\ out.val # <<>>
                    /\ out.val[1] # 0
                    /\ BigEndianValue(out.val) = val.v
    /\ val.v = 1 => out.val = <<1>>
    /\ val.v = 256 => out.val = <<1, 0>>

\* C2 witness: toRlpBytes(256) returned the two bytes 01 00.
C2_Witness == val = BigInt(256) /\ out = Ok(<<1, 0>>)

\* C3: when the base fee is reported as undefined and no other tail field
\* is defined, the encoded list has exactly 15 fields.
C3_UndefinedBaseFeeOmitted ==
  ( /\ pc = "returned"
    /\ block.baseFeePerGas = Undefined
    /\ \A i \in 2..6 : IsAbsent(TailOf(block)[i]) )
  => Len(headerData) = 15

\* C4: when the base fee is 0 and it is the only tail field that is
\* defined, the encoded list has 16 fields and field 16 is the empty byte
\* string.
C4_ZeroBaseFeeKept ==
  ( /\ pc = "returned"
    /\ block.baseFeePerGas = BigInt(0)
    /\ \A i \in 2..6 : IsAbsent(TailOf(block)[i]) )
  => Len(headerData) = 16 /\ headerData[16] = <<>>

\* C5: for a block without a withdrawals root the returned withdrawals_root
\* has _is_some false and a _value of 32 zero bytes.
C5_AbsentRootPlaceholder ==
  (pc = "returned" /\ IsAbsent(block.withdrawalsRoot)) =>
    /\ result.block_header_partial.withdrawals_root._is_some = FALSE
    /\ result.block_header_partial.withdrawals_root._value.length = 32
    /\ result.block_header_partial.withdrawals_root._value.items = Zeros(32)

\* C6: for a block with a 32-byte withdrawals root the returned
\* withdrawals_root has _is_some true and a _value of those 32 bytes in the
\* same order.
C6_PresentRootValue ==
  (pc = "returned" /\ block.withdrawalsRoot.t = "hex"
     /\ Len(block.withdrawalsRoot.d) = 64) =>
    /\ result.block_header_partial.withdrawals_root._is_some = TRUE
    /\ result.block_header_partial.withdrawals_root._value.length = 32
    /\ \A i \in 1..32 :
         result.block_header_partial.withdrawals_root._value.items[i]
           = 16 * block.withdrawalsRoot.d[2 * i - 1] + block.withdrawalsRoot.d[2 * i]

\* C6 witness: a call returned for a block with a withdrawals root.
C6_Witness ==
  /\ pc = "returned"
  /\ block.withdrawalsRoot = Pat(32, 3, 10)
  /\ result.block_header_partial.withdrawals_root._is_some = TRUE

\* C7: a block whose nonce is undefined or null has the 8 zero bytes as
\* field 15 of its encoded list.
C7_NonceDefault ==
  (pc = "returned" /\ block.nonce \in {Null, Undefined}) =>
    /\ Len(headerData) >= 15
    /\ headerData[15] = <<0, 0, 0, 0, 0, 0, 0, 0>>
    /\ headerData[14] = BytesOf(block.mixHash)

\* C7 witness: a call returned for a block with an undefined nonce.
C7_Witness ==
  /\ pc = "returned"
  /\ block.nonce = Undefined
  /\ headerData[15] = <<0, 0, 0, 0, 0, 0, 0, 0>>

\* C8: a block whose logs bloom is null, undefined or the empty string has
\* 256 zero bytes as field 7 of its encoded list, between the receipts root
\* and the difficulty; a logs bloom that is supplied is field 7 itself.
C8_LogsBloomDefault ==
  pc = "returned" =>
    /\ Len(headerData) >= 15
    /\ block.logsBloom \in {Null, Undefined, EmptyStr} =>
         /\ Len(headerData[7]) = 256
         /\ \A i \in 1..256 : headerData[7][i] = 0
    /\ block.logsBloom.t = "hex" => headerData[7] = BytesOf(block.logsBloom)
    /\ headerData[6] = BytesOf(block.receiptsRoot)
    /\ headerData[8] = MinimalBigEndian(block.difficulty.v)

\* C8 witness: a call returned for a block with a null logs bloom.
C8_Witness ==
  /\ pc = "returned"
  /\ block.logsBloom = Null
  /\ Len(headerData[7]) = 256

C10_RoundTrip ==
  pc = "returned" =>
    LET buf == BoundedVecToJSON(result.block_header_rlp)
    IN /\ Len(buf.storage) = 742
       /\ 2 * buf.len = Len(headerRlp.d)
       /\ buf.len <= 742
       /\ Unpack(buf) = BytesOf(headerRlp)
       /\ Unpack(buf) = RlpList(headerData)

\* C10 witness: a call returned a buffer whose 742 entries are all payload.
C10_Witness ==
  /\ pc = "returned"
  /\ result.block_header_rlp.items = BytesOf(headerRlp)
  /\ Len(headerRlp.d) = 2 * 742

----------------------------------------------------------------------------
(* Properties of the errors and of the summary                             *)

\* The call has ended, and getBlock had resolved with a block.
Ended ==
  \/ pc = "returned"
  \/ pc = "rejected" /\ error # "FetchError"

\* The declared width, in bytes, of each fixed-width field of the source.
DeclaredWidth ==
  [ parentHash |-> 32, sha3Uncles |-> 32, miner |-> 20, stateRoot |-> 32,
    transactionsRoot |-> 32, receiptsRoot |-> 32, logsBloom |-> 256,
    mixHash |-> 32 ]

\* A fixed-width field is supplied and is not of its declared width.
WrongWidth(b) ==
  \E f \in DOMAIN DeclaredWidth :
    b[f].t = "hex" /\ Len(b[f].d) # 2 * DeclaredWidth[f]

\* The fields line 35-48 decode without a presence test.
RequiredFields ==
  {"parentHash", "sha3Uncles", "miner", "stateRoot", "transactionsRoot",
   "receiptsRoot", "extraData", "mixHash"}

\* Every required field is there and of its width, the extra data is at
\* most 32 bytes, the nonce at most 8, and every tail field is absent or of
\* its width.
WellFormed(b) ==
  /\ \A f \in RequiredFields : b[f].t = "hex"
  /\ ~WrongWidth(b)
  /\ Len(b.extraData.d) <= 64
  /\ Len(b.nonce.d) <= 16
  /\ \A i \in {2, 5, 6} : TailOf(b)[i].t = "hex" => Len(TailOf(b)[i].d) = 64

\* C11: a call whose block has a fixed-width field of the wrong width is
\* rejected.
C11_WidthError ==
  (Ended /\ WrongWidth(block)) => pc = "rejected"

\* C12: the tail fields of a returned list are the first n of the canonical
\* tail order, for some n.
C12_TailPrefix ==
  pc = "returned" => \E n \in 0..6 : TailIs(block, headerData, 1..n)

C14_OneOnlyWithoutChain ==
  pc = "returned" =>
    /\ client.t = "int" => result.chain_id = client.v
    /\ result.chain_id = 1 <=> client.t \in {"null", "undef"}

\* C14 amended: chain_id is the client's chain id when it reports one and 1
\* when it reports none, whatever block was fetched.
C14_ChainId ==
  pc = "returned" =>
    /\ client.t = "int" => result.chain_id = client.v
    /\ client.t \in {"null", "undef"} => result.chain_id = 1

\* C14 witness: a call to a client without a chain returned chain_id 1, for
\* a block that is not the base block.
C14_Witness ==
  /\ pc = "returned"
  /\ client = Undefined
  /\ result.chain_id = 1
  /\ block = PreLondonBlock

\* C15: a call that is rejected has an error and returns nothing, and a
\* call returns nothing before it ends; a returned result holds chain_id,
\* the six fields of block_header_partial and block_header_rlp.
C15_AllOrNothing ==
  /\ pc # "returned" => DOMAIN result = {"none"}
  /\ pc = "rejected" => error # ""
  /\ pc = "returned" =>
       /\ error = ""
       /\ DOMAIN result = {"chain_id", "block_header_partial", "block_header_rlp"}
       /\ DOMAIN result.block_header_partial
            = {"number", "hash", "state_root", "transactions_root",
               "receipts_root", "withdrawals_root"}
       /\ DOMAIN result.block_header_rlp = {"maxSize", "defaultValue", "items"}

\* C15 witness: a call was rejected after its field list and headerRlp had
\* been built, and returned nothing.
C15_Witness ==
  /\ pc = "rejected"
  /\ error = "CapacityExceeded"
  /\ Len(headerData) = 20
  /\ DOMAIN result = {"none"}

\* C16: a call whose block lacks a required field is rejected, and a call
\* whose block is well-formed returns, whichever tail fields are absent.
C16_RequiredFields ==
  Ended =>
    /\ (\E f \in RequiredFields : IsAbsent(block[f])) => pc = "rejected"
    /\ WellFormed(block) => pc = "returned"

\* C16 witness: a call for a block without a state root was rejected.
C16_Witness ==
  /\ pc = "rejected"
  /\ error = "TypeError"
  /\ block.stateRoot = Undefined
  /\ block.baseFeePerGas = Null

\* C19: a call has made no getBlock call while idle and exactly one from
\* then on; the field list is built only once the block is fetched; no step
\* of a call changes the client, and no step changes the fetched block.
C19_OneFetch ==
  /\ [](/\ pc = "idle" => fetches = 0
        /\ pc # "idle" => fetches = 1
        /\ headerData # <<>> => Ended)
  /\ [][/\ pc' # "idle" => client' = client
        /\ pc \in {"fetched", "returned"} /\ pc' # "idle" => block' = block
        /\ headerData' # headerData /\ pc' # "idle" => pc = "fetched"]_vars

\* C19 witness: a call returned after one getBlock call.
C19_Witness == pc = "returned" /\ fetches = 1 /\ Len(headerData) >= 15

\* C20: the returned block_header_rlp has capacity 742 and a length L, at
\* most 742, that is the number of bytes of headerRlp; its first L stored
\* bytes are headerRlp and the other 742 - L are zero.
C20_BufferShape ==
  pc = "returned" =>
    LET vec == result.block_header_rlp
        buf == BoundedVecToJSON(vec)
        L == Len(BytesOf(headerRlp))
    IN /\ vec.maxSize = 742
       /\ buf.len = L
       /\ L <= 742
       /\ \A i \in 1..L : buf.storage[i] = BytesOf(headerRlp)[i]
       /\ \A i \in (L + 1)..742 : buf.storage[i] = 0
       /\ DOMAIN buf.storage = 1..742

\* C20 witness: a returned buffer of 518 bytes of payload and 224 of padding.
C20_Witness ==
  /\ pc = "returned"
  /\ Len(result.block_header_rlp.items) = 518
  /\ BoundedVecToJSON(result.block_header_rlp).storage[742] = 0

\* A call of the concurrent specification that ended after its fetch.
EndedCall(c) ==
  \/ calls[c].pc = "returned"
  \/ calls[c].pc = "rejected" /\ calls[c].error # "FetchError"

\* C17: any two calls that ended with the same chain id and the same
\* fetched block ended the same way, with equal results or equal errors,
\* whatever the calls before and beside them were.
C17_Deterministic ==
  \A c, d \in Slots :
    (/\ EndedCall(c) /\ EndedCall(d)
     /\ calls[c].chainId = calls[d].chainId
     /\ calls[c].block = calls[d].block)
      => /\ calls[c].pc = calls[d].pc
         /\ calls[c].result = calls[d].result
         /\ calls[c].error = calls[d].error
         /\ calls[c].headerRlp = calls[d].headerRlp

\* C17 witness: two calls of the same chain returned for the same block,
\* the second having ended while the first awaited its fetch.
C17_Witness ==
  /\ calls[1].pc = "returned" /\ calls[2].pc = "returned"
  /\ calls[1].chainId = calls[2].chainId
  /\ calls[1].block = BaseBlock /\ calls[2].block = BaseBlock
  /\ calls[2].overtook /\ ~calls[1].overtook
  /\ calls[1].result = calls[2].result

\* C18: every call that ended while others were in flight ended as a call
\* alone ends for its own client and its own fetched block, and its result
\* carries its own chain id, block number and state root.
C18_Isolated ==
  \A c \in Slots :
    EndedCall(c) =>
      LET alone == Outcome(ChainIdOf(calls[c].client),
                           HeaderFields(calls[c].block), calls[c].block)
      IN /\ calls[c].pc = alone.pc
         /\ calls[c].result = alone.result
         /\ calls[c].error = alone.error
         /\ calls[c].pc = "returned" =>
              /\ calls[c].result.chain_id = ChainIdOf(calls[c].client)
              /\ calls[c].result.block_header_partial.number
                   = calls[c].block.number.v
              /\ calls[c].result.block_header_partial.state_root.items
                   = BytesOf(calls[c].block.stateRoot)

\* C18 witness: two calls of different clients returned for different
\* blocks, call 2 having ended while call 1 still awaited its fetch.
C18_Witness ==
  /\ calls[1].pc = "returned" /\ calls[2].pc = "returned"
  /\ calls[2].overtook
  /\ calls[1].block # calls[2].block
  /\ calls[1].result.chain_id # calls[2].result.chain_id
  /\ calls[1].result.block_header_partial.state_root
       # calls[2].result.block_header_partial.state_root

----------------------------------------------------------------------------
(* Properties of the field list and of the summary                         *)

\* The tail fields the client reports with a value.
PresentTail(b) == {i \in 1..6 : ~IsAbsent(TailOf(b)[i])}

\* C21: for a well-formed block whose base fee is not undefined, the call
\* returns and the list holds, after the fifteen head fields, exactly the
\* tail fields reported with a value: a withdrawals root, blob gas used,
\* excess blob gas, parent beacon block root or requests hash reported as
\* null or as undefined is not in the list.
C21_AbsentTailOmitted ==
  (Ended /\ WellFormed(block) /\ block.baseFeePerGas # Undefined) =>
    /\ pc = "returned"
    /\ TailIs(block, headerData, PresentTail(block))

\* C22: in a returned call the list has between 15 and 21 fields; every
\* head field is in it at its position, an integer 0 and an empty extra
\* data as the empty byte string; and the tail fields in it include every
\* one reported with a value, a 0 as the empty byte string at its position.
C22_OnlyAbsentDropped ==
  pc = "returned" =>
    /\ Len(headerData) \in 15..21
    /\ headerData[8] = MinimalBigEndian(block.difficulty.v)
    /\ headerData[9] = MinimalBigEndian(IF block.number.t = "int" THEN block.number.v ELSE 0)
    /\ headerData[11] = MinimalBigEndian(block.gasUsed.v)
    /\ headerData[13] = BytesOf(block.extraData)
    /\ \E S \in SUBSET (1..6) :
         /\ PresentTail(block) \subseteq S
         /\ TailIs(block, headerData, S)

\* C22 witness: a returned list of 20 fields whose difficulty, base fee and
\* excess blob gas, all 0, are the empty fields 8, 16 and 19.
C22_Witness ==
  /\ pc = "returned"
  /\ block.difficulty = BigInt(0)
  /\ block.baseFeePerGas = BigInt(0)
  /\ block.excessBlobGas = BigInt(0)
  /\ PresentTail(block) = 1..5
  /\ Len(headerData) = 20
  /\ headerData[8] = <<>> /\ headerData[16] = <<>> /\ headerData[19] = <<>>

\* C23: in a returned call field 13 of the list is the bytes the extra data
\* of the block stands for, two hex digits a byte, as many bytes as the
\* extra data has, none when it has none.
C23_ExtraDataRaw ==
  pc = "returned" =>
    /\ 2 * Len(headerData[13]) = Len(block.extraData.d) + (Len(block.extraData.d) % 2)
    /\ \A i \in 1..Len(headerData[13]) :
         headerData[13][i] = BytesOf(block.extraData)[i]

\* C23 witness: returned calls for an extra data of 158 bytes, kept whole.
C23_Witness ==
  /\ pc = "returned"
  /\ block.extraData = Pat(158, 15, 7)
  /\ Len(headerData[13]) = 158
  /\ headerData[13][1] = 16 * 6 + 5
  /\ headerData[13][158] = 16 * 12 + 11

\* What decoding gives for bytes that are no RLP encoding.
Malformed == <<-1>>

\* The byte strings a concatenation of RLP strings decodes to.
RECURSIVE RlpItems(_)
RlpItems(s) ==
  IF s = <<>> THEN <<>>
  ELSE LET p == s[1]
           hdr == IF p < 128 THEN 0 ELSE IF p <= 183 THEN 1 ELSE 1 + (p - 183)
           len == IF p < 128 THEN 1
                  ELSE IF p <= 183 THEN p - 128
                  ELSE IF p <= 191 /\ hdr <= Len(s)
                  THEN BigEndianValue(SubSeq(s, 2, hdr))
                  ELSE -1
       IN IF len < 0 \/ hdr + len > Len(s) THEN <<Malformed>>
          ELSE <<SubSeq(s, hdr + 1, hdr + len)>>
                 \o RlpItems(SubSeq(s, hdr + len + 1, Len(s)))

\* The list of byte strings an RLP list decodes to.
RlpDecodeList(s) ==
  IF s = <<>> \/ s[1] < 192 THEN <<Malformed>>
  ELSE LET p == s[1]
           hdr == IF p <= 247 THEN 1 ELSE 1 + (p - 247)
           len == IF p <= 247 THEN p - 192
                  ELSE IF hdr <= Len(s) THEN BigEndianValue(SubSeq(s, 2, hdr))
                  ELSE -1
       IN IF hdr + len # Len(s) THEN <<Malformed>>
          ELSE RlpItems(SubSeq(s, hdr + 1, Len(s)))

\* C24: in a returned call headerRlp decodes, as an RLP list, to the
\* filtered field list: the same byte strings, in the same order, as many.
\* Decoding is a function of headerRlp, so field lists that differ have
\* different headerRlp.
C24_ListEncoding ==
  pc = "returned" => RlpDecodeList(BytesOf(headerRlp)) = headerData

\* C24 witness: a returned headerRlp of 20 fields that starts with the
\* two-byte length of a long list and decodes to them.
C24_Witness ==
  /\ pc = "returned"
  /\ block = BaseBlock
  /\ BytesOf(headerRlp)[1] = 249
  /\ Len(RlpDecodeList(BytesOf(headerRlp))) = 20
  /\ RlpDecodeList(BytesOf(headerRlp))[13] = BytesOf(Pat(5, 15, 7))

\* C25: in a returned call the nonce field has 8 bytes, and for a supplied
\* nonce they are its bytes after as many zero bytes as it is short of 8; a
\* call for a block whose nonce is longer than 8 bytes is rejected.
C25_NonceWidth ==
  Ended =>
    /\ pc = "returned" =>
         /\ Len(headerData[15]) = 8
         /\ block.nonce.t = "hex" =>
              LET n == BytesOf(block.nonce)
              IN /\ Len(n) <= 8
                 /\ \A i \in 1..8 :
                      headerData[15][i] = IF i <= 8 - Len(n) THEN 0 ELSE n[i - (8 - Len(n))]
    /\ (block.nonce.t = "hex" /\ Len(block.nonce.d) > 16) => pc = "rejected"

\* C25 witness: the one-digit nonce 0x1 returned as seven zero bytes and 1.
C25_Witness ==
  /\ pc = "returned"
  /\ block.nonce = Hex(<<1>>)
  /\ headerData[15] = <<0, 0, 0, 0, 0, 0, 0, 1>>

C28_NumberAgrees ==
  /\ pc = "returned" =>
       LET n == IF block.number.t = "int" THEN block.number.v ELSE 0
       IN /\ result.block_header_partial.number = n
          /\ headerData[9] = MinimalBigEndian(n)
          /\ BigEndianValue(headerData[9]) = result.block_header_partial.number
  /\ (Ended /\ block.number = Null) =>
       pc = Outcome(chainId, HeaderFields([block EXCEPT !.number = BigInt(0)]),
                    [block EXCEPT !.number = BigInt(0)]).pc

\* C28 witness: a call returned for a block whose number is null, with the
\* summary number 0 and an empty field 9.
C28_Witness ==
  /\ pc = "returned"
  /\ block.number = Null
  /\ result.block_header_partial.number = 0
  /\ headerData[9] = <<>>

\* The integer fields of a block.
IntegerFields(b) ==
  {b.difficulty, b.number, b.gasLimit, b.gasUsed, b.timestamp, b.baseFeePerGas,
   b.blobGasUsed, b.excessBlobGas}

\* x, if an integer, is below 2^64: it has at most 16 hexadecimal digits.
BelowTwoTo64(x) == x.t = "big" => Len(x.d) <= 16

\* C29: a call for a well-formed block, with extra data of at most 32 bytes
\* and every integer field below 2^64, returns whichever tail fields the
\* block has, and its headerRlp has at most 742 bytes.
C29_CapacityEnough ==
  (Ended /\ WellFormed(block) /\ \A x \in IntegerFields(block) : BelowTwoTo64(x)) =>
    /\ pc = "returned"
    /\ error # "CapacityExceeded"
    /\ Len(headerRlp.d) <= 2 * 742

\* C29 witness: the widest header, every integer 2^64 - 1 and all six tail
\* fields present, returned with a headerRlp of 694 bytes.
C29_Witness ==
  /\ pc = "returned"
  /\ block = WideBlock(MaxU64, 1..6)
  /\ Len(headerData) = 21
  /\ Len(headerData[8]) = 8
  /\ Len(headerRlp.d) = 2 * 694

\* A value in limbs of four decimal digits, the least significant first,
\* times m with a carry added.
RECURSIVE TimesLimbs(_, _, _)
TimesLimbs(limbs, m, carry) ==
  IF limbs = <<>>
  THEN IF carry = 0 THEN <<>>
       ELSE <<carry % 10000>> \o TimesLimbs(<<>>, m, carry \div 10000)
  ELSE <<(Head(limbs) * m + carry) % 10000>>
         \o TimesLimbs(Tail(limbs), m, (Head(limbs) * m + carry) \div 10000)

\* 2^(16 * k) in limbs.
RECURSIVE TwoPow16Limbs(_)
TwoPow16Limbs(k) ==
  IF k = 0 THEN <<1>> ELSE TimesLimbs(TwoPow16Limbs(k - 1), 65536, 0)

\* The decimal digits, the most significant first, of a value in limbs.
DigitsOfLimbs(limbs) ==
  LET n == Len(limbs)
      all == [i \in 1..(4 * n) |->
                LET limb == limbs[n - ((i - 1) \div 4)]
                    place == (i - 1) % 4
                IN CASE place = 0 -> limb \div 1000
                     [] place = 1 -> (limb \div 100) % 10
                     [] place = 2 -> (limb \div 10) % 10
                     [] place = 3 -> limb % 10]
      first == CHOOSE i \in 1..(4 * n) : all[i] # 0 /\ \A j \in 1..(i - 1) : all[j] = 0
  IN SubSeq(all, first, 4 * n)

\* 2^128 - 1: the last limb of 2^128 is not 0, so no limb is borrowed from.
TwoTo128LessOne ==
  LET p == TwoPow16Limbs(8)
  IN DigitsOfLimbs(<<Head(p) - 1>> \o Tail(p))

\* a <= b for the decimal digits of two values that are not negative.
DigitsAtMost(a, b) ==
  \/ Len(a) < Len(b)
  \/ /\ Len(a) = Len(b)
     /\ \/ a = b
        \/ \E i \in 1..Len(a) :
             /\ a[i] < b[i]
             /\ \A j \in 1..(i - 1) : a[j] = b[j]

====
